---- MODULE Spec2Model ----
(***************************************************************************)
(* Strategy X of the Ethos-N support library: the stripe-shape resolver    *)
(* (TryStripeShapes), the two traversal searches (TryInputXYOutputXYZ and  *)
(* TryInputZXYOutputXYZ) and the entry point TryStrategyX, as a state      *)
(* machine.  One behaviour is one call of TryStrategyX; every call of the  *)
(* resolver made by a search is one step.                                  *)
(***************************************************************************)
EXTENDS Integers, Sequences, FiniteSets, TLC

VARIABLES
    args,           \* the arguments of the TryStrategyX call (never change)
    pc,             \* position inside TryStrategyX and the two searches
    tensorConfig,   \* TensorConfig& tensorConfig
    sramAllocator,  \* SramAllocator& sramAllocator
    it,             \* loop position of the running search; of the accepted candidate after
                    \* a search returned true
    xyRet,          \* return value of TryInputXYOutputXYZ  (set when pc reaches "xy_returned")
    zxyRet,         \* return value of TryInputZXYOutputXYZ (set when pc reaches "zxy_returned")
    ret,            \* return value of TryStrategyX         (set when pc reaches "done")
    calls,          \* number of TryStripeShapes calls made so far by each search
    lastTry         \* the most recent TryStripeShapes call: its inputs and outputs

vars == <<args, pc, tensorConfig, sramAllocator, it, xyRet, zxyRet, ret, calls, lastTry>>

-----------------------------------------------------------------------------
(* Utils.hpp arithmetic                                                    *)

\* F applied to the value of v, with v evaluated once (a local or an
\* argument of the code, computed once and read many times)
With(v, F(_)) == CHOOSE r \in {F(x) : x \in {v}} : TRUE

With2(v, w, F(_, _)) == CHOOSE r \in {F(x, y) : x \in {v}, y \in {w}} : TRUE

Min(x, y) == With2(x, y, LAMBDA u, v : IF u <= v THEN u ELSE v)

DivRoundUp(numerator, denominator) ==
    With2(numerator, denominator, LAMBDA n, d : (n + d - 1) \div d)

RoundUpToNearestMultiple(num, nearestMultiple) ==
    With2(num, nearestMultiple, LAMBDA n, m : IF n % m = 0 THEN n ELSE n + m - (n % m))

GetHeight(shape)   == shape[2]
GetWidth(shape)    == shape[3]
GetChannels(shape) == shape[4]

TotalSizeBytes(shape) == With(shape, LAMBDA t : t[1] * t[2] * t[3] * t[4])

\* utils::Fraction and utils::ShapeMultiplier
Frac(n, d) == [n |-> n, d |-> d]
FracTimes(f, i) == With(f, LAMBDA g : (i * g.n) \div g.d)
DivFrac(i, f)   == With(f, LAMBDA g : (i * g.d) \div g.n)
FracMul(f, g)   == Frac(f.n * g.n, f.d * g.d)
ShapeMul(m, p)  == [m_H |-> FracMul(m.m_H, p.m_H),
                    m_W |-> FracMul(m.m_W, p.m_W),
                    m_C |-> FracMul(m.m_C, p.m_C)]

AccountForFullDimension(outputTensorSize, inputTensorSize, outputStripeSize, multiplier) ==
    With(outputStripeSize,
         LAMBDA size : IF size >= outputTensorSize THEN inputTensorSize ELSE DivFrac(size, multiplier))

GetBoundaryRequirements(padBefore, ifmSize, ifmStripeSize, ofmStripeSize, weightSize) ==
    IF ifmStripeSize >= ifmSize
    THEN [m_Before |-> FALSE, m_After |-> FALSE]
    ELSE [m_Before |-> padBefore > 0,
          m_After  |-> (ofmStripeSize + weightSize - padBefore - 1) > ifmStripeSize]

g_WeightsChannelVecProd == 1024

EstimateWeightSizeBytes(shape, capabilities, isHwim) ==
    IF isHwim
    THEN shape[1] * shape[2] * RoundUpToNearestMultiple(shape[3] * shape[4], capabilities.numberOfOfm)
    ELSE shape[1] * shape[2] * shape[3] * shape[4]

-----------------------------------------------------------------------------
(* SramAllocator and FitsInSram: a first-fit allocator whose state is the  *)
(* list of free chunks <<begin, end>> of [0, capacity), in address order   *)

ChunkFits(chunk, size) == size <= chunk[2] - chunk[1]

\* the free list with chunk k replaced by what is left of it
Shrink(free, k, rest) ==
    IF rest[1] = rest[2]
    THEN [n \in 1..(Len(free) - 1) |-> IF n < k THEN free[n] ELSE free[n + 1]]
    ELSE [free EXCEPT ![k] = rest]

\* SramAllocator::Allocate(size, AllocationPreference): the first free chunk
\* that is large enough, seen from the preferred end
AllocateIn(alloc, size, preference, k) ==
    LET chunk == alloc.free[k]
    IN  IF preference = "Start"
        THEN [ok |-> TRUE, offset |-> chunk[1],
              alloc |-> [alloc EXCEPT !.free = Shrink(@, k, <<chunk[1] + size, chunk[2]>>)]]
        ELSE [ok |-> TRUE, offset |-> chunk[2] - size,
              alloc |-> [alloc EXCEPT !.free = Shrink(@, k, <<chunk[1], chunk[2] - size>>)]]

AllocateAmong(alloc, size, preference, fitting) ==
    IF fitting = {}
    THEN [ok |-> FALSE, offset |-> 0, alloc |-> alloc]
    ELSE With(IF preference = "Start"
              THEN CHOOSE x \in fitting : \A y \in fitting : x <= y
              ELSE CHOOSE x \in fitting : \A y \in fitting : x >= y,
              LAMBDA k : AllocateIn(alloc, size, preference, k))

Allocate(alloc, size, preference) ==
    With({k \in 1..Len(alloc.free) : ChunkFits(alloc.free[k], size)},
         LAMBDA fitting : AllocateAmong(alloc, size, preference, fitting))

AllocationResults(inRes, wRes, oRes) ==
    [m_Success      |-> inRes.ok /\ wRes.ok /\ oRes.ok,
     m_InputOffset  |-> inRes.offset,
     m_WeightOffset |-> wRes.offset,
     m_OutputOffset |-> oRes.offset,
     alloc          |-> oRes.alloc]

\* the weights and the outputs, at opposite ends of the SRAM
FitsInSramAfterInput(capabilities, weight, output, inRes, inputAtStart) ==
    With(Allocate(inRes.alloc, weight, IF inputAtStart THEN "Start" ELSE "End"),
         LAMBDA wRes :
             With(Allocate(wRes.alloc, output, IF inputAtStart THEN "End" ELSE "Start"),
                  LAMBDA oRes : AllocationResults(inRes, wRes, oRes)))

FitsInSram(alloc, capabilities, input, weight, output, inputStaticAndOffset) ==
    With(IF inputStaticAndOffset[1]
         THEN [ok |-> TRUE, offset |-> inputStaticAndOffset[2], alloc |-> alloc]
         ELSE Allocate(alloc, input, "Start"),
         LAMBDA inRes :
             FitsInSramAfterInput(capabilities, weight, output, inRes,
                                  inRes.offset <= capabilities.totalSramSize \div 2))

FillTensorConfigOffsets(allocationResults, cfg) ==
    [cfg EXCEPT !.inputAllocation.offset   = allocationResults.m_InputOffset,
                !.weightsAllocation.offset = allocationResults.m_WeightOffset,
                !.outputAllocation.offset  = allocationResults.m_OutputOffset]

-----------------------------------------------------------------------------
(* StrategyX.cpp                                                           *)

IsUpsampling(upsampleType) == upsampleType # "OFF"

IsFullyConnected(mceOperation) == mceOperation = "FULLY_CONNECTED"

\* a BlockConfig is <<width, height>>
m_BlockWidth(blockConfig)  == blockConfig[1]
m_BlockHeight(blockConfig) == blockConfig[2]

\* mutant: the accumulator rule applies to convolutions only
IsBlockConfigCompatible_AreaRuleForConvolution(blockConfig, capabilities, mceOperation, upsampleType) ==
    IF ~IsFullyConnected(mceOperation) /\ ~IsUpsampling(upsampleType)
       /\ m_BlockWidth(blockConfig) * m_BlockHeight(blockConfig) > capabilities.totalAccumulatorsPerEngine
    THEN FALSE
    ELSE IF IsFullyConnected(mceOperation) /\ blockConfig # <<8, 8>> THEN FALSE
    ELSE IF IsUpsampling(upsampleType) /\ blockConfig # <<16, 16>> THEN FALSE
    ELSE TRUE

IsBlockConfigCompatible(blockConfig, capabilities, mceOperation, upsampleType) ==
    LET numAccumulatorsPerOg     == capabilities.totalAccumulatorsPerEngine
        currBlockWidth           == m_BlockWidth(blockConfig)
        currBlockHeight          == m_BlockHeight(blockConfig)
        numberOfElementsInABlock == currBlockWidth * currBlockHeight
    IN  IF numberOfElementsInABlock > numAccumulatorsPerOg THEN FALSE
        ELSE IF IsFullyConnected(mceOperation) /\ (currBlockWidth # 8 \/ currBlockHeight # 8) THEN FALSE
        ELSE IF IsUpsampling(upsampleType) /\ (currBlockWidth # 16 \/ currBlockHeight # 16) THEN FALSE
        ELSE TRUE

-----------------------------------------------------------------------------
(* TryStripeShapes.  a: the arguments shared by every call of one search;  *)
(* q: the arguments of this call (requestedOutputStripe,                   *)
(* requestedInputChannels, allowInputBuffering, avoidInputReloading,       *)
(* activationCompression, weightsReloading)                                *)

brickGroupHeight(a)   == GetHeight(a.capabilities.brickGroupShape)
brickGroupWidth(a)    == GetWidth(a.capabilities.brickGroupShape)
brickGroupChannels(a) == GetChannels(a.capabilities.brickGroupShape)
shapeMultiplier(a)    == ShapeMul(a.mceShapeMultiplier, a.pleShapeMultiplier)

\* the output stripe of the MCE, before any activation-compression widening
MceStripeWidth(a, q) ==
    LET outputStripeWidthMin == FracTimes(shapeMultiplier(a).m_W, brickGroupWidth(a))
        outputStripeWidthMax == RoundUpToNearestMultiple(GetWidth(a.outputShape), brickGroupWidth(a))
    IN  Min(RoundUpToNearestMultiple(GetWidth(q.requestedOutputStripe), outputStripeWidthMin),
            outputStripeWidthMax)

MceStripeHeight(a, q) ==
    LET outputStripeHeightMin == FracTimes(shapeMultiplier(a).m_H, brickGroupHeight(a))
        outputStripeHeightMax == RoundUpToNearestMultiple(GetHeight(a.outputShape), brickGroupHeight(a))
    IN  Min(RoundUpToNearestMultiple(GetHeight(q.requestedOutputStripe), outputStripeHeightMin),
            outputStripeHeightMax)

RoundedStripeChannels(a, q) ==
    LET requested == GetChannels(q.requestedOutputStripe)
        m_C       == shapeMultiplier(a).m_C
    IN  IF DivRoundUp(GetChannels(a.outputShape), requested) > 1
           /\ requested > FracTimes(m_C, brickGroupChannels(a))
        THEN RoundUpToNearestMultiple(requested, FracTimes(m_C, brickGroupChannels(a)))
        ELSE RoundUpToNearestMultiple(requested, FracTimes(m_C, a.capabilities.numberOfSrams))

InputStripeHeight(a, q) ==
    LET inputStripeHeightPre ==
            AccountForFullDimension(GetHeight(a.outputShape), GetHeight(a.inputShape),
                                    MceStripeHeight(a, q), shapeMultiplier(a).m_H)
    IN  RoundUpToNearestMultiple(Min(inputStripeHeightPre, GetHeight(a.inputShape)), brickGroupHeight(a))

InputStripeWidth(a, q) ==
    LET inputStripeWidthPre ==
            AccountForFullDimension(GetWidth(a.outputShape), GetWidth(a.inputShape),
                                    MceStripeWidth(a, q), shapeMultiplier(a).m_W)
    IN  RoundUpToNearestMultiple(Min(inputStripeWidthPre, GetWidth(a.inputShape)), brickGroupWidth(a))

\* the depthMax cap, applied when the input is more than one stripe high
CappedStripeChannels(a, q) ==
    IF DivRoundUp(GetHeight(a.inputShape), InputStripeHeight(a, q)) > 1
    THEN Min(RoundedStripeChannels(a, q), a.depthMax)
    ELSE RoundedStripeChannels(a, q)

MceOutputStripe(a, q) ==
    <<1, DivFrac(MceStripeHeight(a, q), a.pleShapeMultiplier.m_H),
         DivFrac(MceStripeWidth(a, q), a.pleShapeMultiplier.m_W),
         DivFrac(CappedStripeChannels(a, q), a.pleShapeMultiplier.m_C)>>

StrideSize(a) ==
    DivRoundUp(RoundUpToNearestMultiple(GetChannels(a.inputShape), a.capabilities.numberOfSrams),
               RoundUpToNearestMultiple(a.weightsShape[3], a.capabilities.numberOfSrams))

\* mutant: the requested channel split is ignored
InputStripeChannels_Unsplit(a, q) ==
    RoundUpToNearestMultiple(GetChannels(a.inputShape), a.capabilities.numberOfSrams * StrideSize(a))

InputStripeChannels(a, q) ==
    IF DivRoundUp(GetChannels(a.inputShape), q.requestedInputChannels) > 1
       /\ q.requestedInputChannels > brickGroupChannels(a) * StrideSize(a)
    THEN RoundUpToNearestMultiple(q.requestedInputChannels, brickGroupChannels(a) * StrideSize(a))
    ELSE RoundUpToNearestMultiple(q.requestedInputChannels, a.capabilities.numberOfSrams * StrideSize(a))

InputStripe(a, q) == <<1, InputStripeHeight(a, q), InputStripeWidth(a, q), InputStripeChannels(a, q)>>

\* "Make sure that input is DMA-able."
InputDmaAble(a, inputStripe) ==
    ~ (GetHeight(inputStripe) % brickGroupHeight(a) # 0 \/ GetWidth(inputStripe) % brickGroupWidth(a) # 0)

WeightStripe(a, inputStripe, mceOutputStripe) ==
    LET weightStripeChannels ==
            IF IsFullyConnected(a.mceOperation)
            THEN RoundUpToNearestMultiple(
                     GetHeight(inputStripe) * GetWidth(inputStripe) * GetChannels(inputStripe),
                     g_WeightsChannelVecProd)
            ELSE GetChannels(inputStripe)
    IN  <<a.weightsShape[1], a.weightsShape[2], weightStripeChannels, GetChannels(mceOutputStripe)>>

\* mutant: slot groups are allocated whenever buffering is allowed, also for
\* an input stripe of full depth
InputTile_SlotGroupsAtFullDepth(a, q, inputStripe, mceOutputStripe) ==
    LET needBoundaryY == GetBoundaryRequirements(a.pad[1], GetHeight(a.inputShape), GetHeight(inputStripe),
                                                 GetHeight(mceOutputStripe), a.weightsShape[1])
        needsBoundarySlots == needBoundaryY.m_Before \/ needBoundaryY.m_After
        inputStripeXZ    == GetWidth(inputStripe) * GetChannels(inputStripe)
        boundarySlotSize == IF needsBoundarySlots THEN brickGroupHeight(a) * inputStripeXZ ELSE 0
        totalSlotSize    == (2 * boundarySlotSize) + TotalSizeBytes(inputStripe)
        numInputStripesTotalX == DivRoundUp(GetWidth(a.inputShape), GetWidth(inputStripe))
        numInputStripesTotalY == DivRoundUp(GetHeight(a.inputShape), GetHeight(inputStripe))
        numInputStripesTotalZ == DivRoundUp(GetChannels(a.inputShape), GetChannels(inputStripe))
        needBoundaryX == GetBoundaryRequirements(a.pad[2], GetWidth(a.inputShape), GetWidth(inputStripe),
                                                 GetWidth(mceOutputStripe), a.weightsShape[2])
        numInputSlots == Min(1 + (IF needBoundaryX.m_Before THEN 1 ELSE 0)
                               + (IF needBoundaryX.m_After THEN 1 ELSE 0),
                             numInputStripesTotalX)
        numInputSlotGroupsMax ==
            IF q.avoidInputReloading /\ numInputStripesTotalY = 1 /\ numInputStripesTotalX = 1
            THEN numInputStripesTotalX * numInputStripesTotalY * numInputStripesTotalZ
            ELSE 2
    IN  totalSlotSize * numInputSlots * (IF q.allowInputBuffering THEN numInputSlotGroupsMax ELSE 1)

InputTile(a, q, inputStripe, mceOutputStripe) ==
    LET needBoundaryY == GetBoundaryRequirements(a.pad[1], GetHeight(a.inputShape), GetHeight(inputStripe),
                                                 GetHeight(mceOutputStripe), a.weightsShape[1])
        needsBoundarySlots == needBoundaryY.m_Before \/ needBoundaryY.m_After
        inputStripeXZ    == GetWidth(inputStripe) * GetChannels(inputStripe)
        boundarySlotSize == IF needsBoundarySlots THEN brickGroupHeight(a) * inputStripeXZ ELSE 0
        defaultSlotSize  == TotalSizeBytes(inputStripe)
        totalSlotSize    == (2 * boundarySlotSize) + defaultSlotSize
        numInputStripesTotalX == DivRoundUp(GetWidth(a.inputShape), GetWidth(inputStripe))
        numInputStripesTotalY == DivRoundUp(GetHeight(a.inputShape), GetHeight(inputStripe))
        numInputStripesTotalZ == DivRoundUp(GetChannels(a.inputShape), GetChannels(inputStripe))
        needBoundaryX == GetBoundaryRequirements(a.pad[2], GetWidth(a.inputShape), GetWidth(inputStripe),
                                                 GetWidth(mceOutputStripe), a.weightsShape[2])
        numInputSlots == Min(1 + (IF needBoundaryX.m_Before THEN 1 ELSE 0)
                               + (IF needBoundaryX.m_After THEN 1 ELSE 0),
                             numInputStripesTotalX)
        isFullHeight == numInputStripesTotalY = 1
        isFullWidth  == numInputStripesTotalX = 1
        numInputSlotGroupsMax ==
            IF q.avoidInputReloading /\ isFullHeight /\ isFullWidth
            THEN numInputStripesTotalX * numInputStripesTotalY * numInputStripesTotalZ
            ELSE 2
        needSlotGroups == GetChannels(a.inputShape) > GetChannels(inputStripe)
    IN  totalSlotSize * numInputSlots
          * (IF q.allowInputBuffering /\ needSlotGroups THEN numInputSlotGroupsMax ELSE 1)

NumWeightStripesInTile(a, q, inputStripe) ==
    IF ~IsFullyConnected(a.mceOperation)
    THEN IF q.weightsReloading = "NO_RELOADING"
         THEN DivRoundUp(GetChannels(a.inputShape), GetChannels(inputStripe))
         ELSE IF q.weightsReloading = "RELOADING_DOUBLE_BUFFERING" THEN 2 ELSE 1
    ELSE 2

WeightTile(a, q, inputStripe, weightStripe) ==
    EstimateWeightSizeBytes(weightStripe, a.capabilities, a.weightsFormat = "HWIM")
        * NumWeightStripesInTile(a, q, inputStripe)

\* the output stripe, after the activation-compression widening
OutputStripe(a, q) ==
    LET mce == <<1, MceStripeHeight(a, q), MceStripeWidth(a, q), CappedStripeChannels(a, q)>>
        minFcafDepth == IF a.outputShape[2] <= 8 /\ a.outputShape[3] <= 8 THEN 32 ELSE 16
    IN  IF q.activationCompression /\ minFcafDepth > GetChannels(mce)
        THEN <<1, RoundUpToNearestMultiple(a.outputShape[2], 8),
                  RoundUpToNearestMultiple(a.outputShape[3], 8), minFcafDepth>>
        ELSE mce

\* mutant: the output alignment check is left out
OutputDmaAble_Unchecked(a, outputStripe) == TRUE

\* "Make sure that output is DMA-able."
OutputDmaAble(a, outputStripe) ==
    ~ (GetHeight(outputStripe) % brickGroupHeight(a) # 0 \/ GetWidth(outputStripe) % brickGroupWidth(a) # 0)

OutputTileMax(a) ==
    TotalSizeBytes(<<1, RoundUpToNearestMultiple(GetHeight(a.outputShape), brickGroupHeight(a)),
                        RoundUpToNearestMultiple(GetWidth(a.outputShape), brickGroupWidth(a)),
                        RoundUpToNearestMultiple(GetChannels(a.outputShape), a.capabilities.numberOfOfm)>>)

\* mutant: the output tile is not clamped to the full tensor
OutputTile_Unclamped(a, outputStripe) == TotalSizeBytes(outputStripe) * 2

OutputTile(a, outputStripe) ==
    LET maxNumOutputStripesInTile == 2
        numOutputStripesTotalX == DivRoundUp(GetWidth(a.outputShape), GetWidth(outputStripe))
        numOutputStripesTotalY == DivRoundUp(GetHeight(a.outputShape), GetHeight(outputStripe))
        numOutputStripesTotalZ == DivRoundUp(GetChannels(a.outputShape), GetChannels(outputStripe))
        numOutputStripesTotal  == numOutputStripesTotalX * numOutputStripesTotalY * numOutputStripesTotalZ
        numOutputStripesInTile == Min(maxNumOutputStripesInTile, numOutputStripesTotal)
    IN  Min(TotalSizeBytes(outputStripe) * numOutputStripesInTile, OutputTileMax(a))

\* the four stripe shapes TryStripeShapes derives
Stripes(a, q, inputStripe, mceOutputStripe) ==
    [inputStripe     |-> inputStripe,
     mceOutputStripe |-> mceOutputStripe,
     weightStripe    |-> WeightStripe(a, inputStripe, mceOutputStripe),
     outputStripe    |-> OutputStripe(a, q)]

\* the three tile sizes that go with them
Tiles(a, q, s) ==
    [inputStripe  |-> s.inputStripe,
     weightStripe |-> s.weightStripe,
     outputStripe |-> s.outputStripe,
     inputTile    |-> InputTile(a, q, s.inputStripe, s.mceOutputStripe),
     weightTile   |-> WeightTile(a, q, s.inputStripe, s.weightStripe),
     outputTile   |-> OutputTile(a, s.outputStripe)]

\* the stripes and tiles TryStripeShapes derives before it turns to the allocator
Sizes(a, q) ==
    With(InputStripe(a, q),
         LAMBDA inputStripe :
             With(MceOutputStripe(a, q),
                  LAMBDA mceOutputStripe :
                      With(Stripes(a, q, inputStripe, mceOutputStripe),
                           LAMBDA s : Tiles(a, q, s))))

NoFit == [m_Success |-> FALSE]

\* mutant: FitsInSram runs on the caller's allocator instead of a copy
Commit_OnCallersAllocator(sizes, allocationResults, alloc, outTensorConfig) ==
    IF ~allocationResults.m_Success
    THEN [ok |-> FALSE, alloc |-> allocationResults.alloc, cfg |-> outTensorConfig,
          sizes |-> sizes, fit |-> allocationResults]
    ELSE [ok |-> TRUE,
          alloc |-> allocationResults.alloc,
          cfg |->
              FillTensorConfigOffsets(allocationResults,
                  [outTensorConfig EXCEPT
                      !.inputAllocation.stripeShape   = sizes.inputStripe,
                      !.inputAllocation.tileSize      = sizes.inputTile,
                      !.outputAllocation.stripeShape  = sizes.outputStripe,
                      !.outputAllocation.tileSize     = sizes.outputTile,
                      !.weightsAllocation.stripeShape = sizes.weightStripe,
                      !.weightsAllocation.tileSize    = sizes.weightTile]),
          sizes |-> sizes, fit |-> allocationResults]

\* mutant: m_Success is not tested before the configuration is written
Commit_IgnoringFailure(sizes, allocationResults, alloc, outTensorConfig) ==
    [ok |-> TRUE,
     alloc |-> allocationResults.alloc,
     cfg |->
         FillTensorConfigOffsets(allocationResults,
             [outTensorConfig EXCEPT
                 !.inputAllocation.stripeShape   = sizes.inputStripe,
                 !.inputAllocation.tileSize      = sizes.inputTile,
                 !.outputAllocation.stripeShape  = sizes.outputStripe,
                 !.outputAllocation.tileSize     = sizes.outputTile,
                 !.weightsAllocation.stripeShape = sizes.weightStripe,
                 !.weightsAllocation.tileSize    = sizes.weightTile]),
     sizes |-> sizes, fit |-> allocationResults]

\* the tail of TryStripeShapes: FitsInSram has run on a copy of the caller's
\* allocator; nothing is written unless it succeeded, and then the stripes,
\* the tiles, the allocator and the offsets are.  [ok, alloc, cfg] are the
\* return value and the two reference parameters as the call leaves them;
\* sizes and fit record what the call computed on the way
Commit(sizes, allocationResults, alloc, outTensorConfig) ==
    IF ~allocationResults.m_Success
    THEN [ok |-> FALSE, alloc |-> alloc, cfg |-> outTensorConfig,
          sizes |-> sizes, fit |-> allocationResults]
    ELSE [ok |-> TRUE,
          alloc |-> allocationResults.alloc,
          cfg |->
              FillTensorConfigOffsets(allocationResults,
                  [outTensorConfig EXCEPT
                      !.inputAllocation.stripeShape   = sizes.inputStripe,
                      !.inputAllocation.tileSize      = sizes.inputTile,
                      !.outputAllocation.stripeShape  = sizes.outputStripe,
                      !.outputAllocation.tileSize     = sizes.outputTile,
                      !.weightsAllocation.stripeShape = sizes.weightStripe,
                      !.weightsAllocation.tileSize    = sizes.weightTile]),
          sizes |-> sizes, fit |-> allocationResults]

\* the early returns of TryStripeShapes, and FitsInSram on a copy of the
\* allocator when neither is taken
CheckAndFit(a, sizes, alloc, outTensorConfig) ==
    IF ~InputDmaAble(a, sizes.inputStripe)
    THEN [ok |-> FALSE, alloc |-> alloc, cfg |-> outTensorConfig, sizes |-> sizes, fit |-> NoFit]
    ELSE IF ~OutputDmaAble(a, sizes.outputStripe)
    THEN [ok |-> FALSE, alloc |-> alloc, cfg |-> outTensorConfig, sizes |-> sizes, fit |-> NoFit]
    ELSE With(FitsInSram(alloc, a.capabilities, sizes.inputTile, sizes.weightTile,
                         sizes.outputTile, a.inputStaticAndOffset),
              LAMBDA allocationResults : Commit(sizes, allocationResults, alloc, outTensorConfig))

TryStripeShapes(a, q, alloc, outTensorConfig) ==
    With(Sizes(a, q), LAMBDA sizes : CheckAndFit(a, sizes, alloc, outTensorConfig))

-----------------------------------------------------------------------------
(* The candidate lists of the two searches                                 *)

\* the comparator handed to std::sort: wider first, then taller first
SortBefore(x, y) ==
    m_BlockWidth(x) > m_BlockWidth(y)
    \/ (m_BlockWidth(x) = m_BlockWidth(y) /\ m_BlockHeight(x) >= m_BlockHeight(y))

Range(seq) == {seq[k] : k \in 1..Len(seq)}

\* allowedBlockConfigs after std::sort (the configs of one call are distinct)
SortedBlockConfigs(a) ==
    LET S == Range(a.allowedBlockConfigs)
        rank(b) == 1 + Cardinality({c \in S : c # b /\ SortBefore(c, b)})
    IN  [k \in 1..Cardinality(S) |-> CHOOSE b \in S : rank(b) = k]

IsCompatible(a, blockConfig) ==
    IsBlockConfigCompatible(blockConfig, a.capabilities, a.mceOperation, a.upsampleType)

CompatibleBlockConfigs(a) == SelectSeq(SortedBlockConfigs(a), LAMBDA b : IsCompatible(a, b))

\* {true, false} for N78 and not fully connected, {false} otherwise
ActivationCompressionOptions(a) ==
    IF a.capabilities.activationCompressionVersion = 1 /\ ~IsFullyConnected(a.mceOperation)
    THEN <<TRUE, FALSE>>
    ELSE <<FALSE>>

WeightsReloadingModes == <<"NO_RELOADING", "RELOADING_DOUBLE_BUFFERING", "RELOADING_NO_DOUBLE_BUFFERING">>

\* mutant: the channel splits run up to the full channel count
NumChannelSplits_UpToChannels(a) == GetChannels(a.inputShape)

\* numInputChannelSplits runs over 2 .. GetChannels(inputShape) - 1
NumChannelSplits(a) == IF GetChannels(a.inputShape) > 2 THEN GetChannels(a.inputShape) - 2 ELSE 0

Params(a, blockConfig, inputStripeChannel, compression) ==
    [blockHeight           |-> m_BlockHeight(blockConfig),
     blockWidth            |-> m_BlockWidth(blockConfig),
     inputStripeChannel    |-> inputStripeChannel,
     outputStripeHeight    |-> FracTimes(a.pleShapeMultiplier.m_H, m_BlockHeight(blockConfig)),
     outputStripeWidth     |-> FracTimes(a.pleShapeMultiplier.m_W, m_BlockWidth(blockConfig)),
     outputStripeChannel   |-> FracTimes(a.pleShapeMultiplier.m_C, a.capabilities.numberOfOfm),
     activationCompression |-> compression]

\* paramsList of TryInputZXYOutputXYZ: compression option, then block config,
\* then channel split
ParamsListSizeZXY(a) ==
    Len(ActivationCompressionOptions(a)) * Len(CompatibleBlockConfigs(a)) * NumChannelSplits(a)

ParamsZXY(a, i) ==
    LET nS == NumChannelSplits(a)
        nB == Len(CompatibleBlockConfigs(a))
        numInputChannelSplits == 2 + ((i - 1) % nS)
        block       == CompatibleBlockConfigs(a)[1 + (((i - 1) \div nS) % nB)]
        compression == ActivationCompressionOptions(a)[1 + ((i - 1) \div (nS * nB))]
    IN  Params(a, block, GetChannels(a.inputShape) \div numInputChannelSplits, compression)

\* paramsList of TryInputXYOutputXYZ: one candidate per compatible block config
ParamsListSizeXY(a) == Len(CompatibleBlockConfigs(a))

ParamsXY(a, i) == Params(a, CompatibleBlockConfigs(a)[i], GetChannels(a.inputShape), FALSE)

Request(params, allowInputBuffering, avoidInputReloading, weightsReloading) ==
    [requestedOutputStripe  |-> <<1, params.outputStripeHeight, params.outputStripeWidth,
                                     params.outputStripeChannel>>,
     requestedInputChannels |-> params.inputStripeChannel,
     allowInputBuffering    |-> allowInputBuffering,
     avoidInputReloading    |-> avoidInputReloading,
     activationCompression  |-> params.activationCompression,
     weightsReloading       |-> weightsReloading]

Accept(params, cfg) ==
    [cfg EXCEPT !.blockWidth = params.blockWidth, !.blockHeight = params.blockHeight,
                !.strategy = "STRATEGY_X"]

\* mutant: a full-depth input stripe passes the partial-depth check
IsPartialDepth_OrFull(cfg, inputShape) ==
    GetChannels(cfg.inputAllocation.stripeShape) <= GetChannels(inputShape)

\* "Check that input stripe is partial depth."
IsPartialDepth(cfg, inputShape) == GetChannels(cfg.inputAllocation.stripeShape) < GetChannels(inputShape)

\* the TryConf lambda of TryInputZXYOutputXYZ ([ok, alloc, cfg] as for
\* TryStripeShapes; resolver is what its TryStripeShapes call returned)
\* r: what its TryStripeShapes call returned and left behind
AfterTryStripeShapesZXY(a, params, r) ==
    IF r.ok /\ IsPartialDepth(r.cfg, a.inputShape)
    THEN [ok |-> TRUE, alloc |-> r.alloc, cfg |-> Accept(params, r.cfg), resolver |-> r]
    ELSE [ok |-> FALSE, alloc |-> r.alloc, cfg |-> r.cfg, resolver |-> r]

TryConfZXY(a, params, allowInputBuffering, avoidInputReloading, weightsReloading, alloc, cfg) ==
    With(TryStripeShapes(a, Request(params, allowInputBuffering, avoidInputReloading, weightsReloading),
                         alloc, cfg),
         LAMBDA r : AfterTryStripeShapesZXY(a, params, r))

\* the TryConf lambda of TryInputXYOutputXYZ
AfterTryStripeShapesXY(params, r) ==
    IF r.ok
    THEN [ok |-> TRUE, alloc |-> r.alloc, cfg |-> Accept(params, r.cfg), resolver |-> r]
    ELSE [ok |-> FALSE, alloc |-> r.alloc, cfg |-> r.cfg, resolver |-> r]

TryConfXY(a, params, allowInputBuffering, alloc, cfg) ==
    With(TryStripeShapes(a, Request(params, allowInputBuffering, FALSE, "NO_RELOADING"), alloc, cfg),
         LAMBDA r : AfterTryStripeShapesXY(params, r))

\* mutant: the passes run from no buffering to buffering with reload avoidance
BufferingTiers_Reversed == << <<FALSE, FALSE>>, <<TRUE, FALSE>>, <<TRUE, TRUE>> >>

\* the three passes of TryInputZXYOutputXYZ over paramsList, in the order
\* tried: <<allowInputBuffering, avoidInputReloading>>
BufferingTiers == << <<TRUE, TRUE>>, <<TRUE, FALSE>>, <<FALSE, FALSE>> >>

\* the two passes of TryInputXYOutputXYZ: allowInputBuffering
BufferingPassesXY == <<TRUE, FALSE>>

\* mutant: the fully-connected test is left out
ApplicableXY_AnyOperator(a) == ~a.inputStaticAndOffset[1]

\* the early returns of TryInputXYOutputXYZ before any candidate is built
ApplicableXY(a) == ~a.inputStaticAndOffset[1] /\ IsFullyConnected(a.mceOperation)

\* the early return of TryInputZXYOutputXYZ before any candidate is built
ApplicableZXY(a) == ~a.inputStaticAndOffset[1]

-----------------------------------------------------------------------------
(* The calls of TryStrategyX that are explored.  No sum or product of the   *)
(* resolver comes near 2^32 on them, so uint32_t arithmetic is exact; a    *)
(* depthMax of 2147483647 stands for the callers' "no cap" (UINT32_MAX).   *)

MaxChannelBricks == 3   \* input channels up to 16 * MaxChannelBricks
MaxSpatialBricks == 2   \* input height and width up to 8 * MaxSpatialBricks
MaxUsedChunks    == 1   \* chunks already in use in the caller's allocator
MaxDeviations    == 2   \* arguments in which a call differs from ReferenceCall

Unit == Frac(1, 1)
Half == Frac(1, 2)
Twice == Frac(2, 1)
Identity == [m_H |-> Unit, m_W |-> Unit, m_C |-> Unit]

Capabilities(version, sramSize) ==
    [brickGroupShape               |-> <<1, 8, 8, 16>>,
     numberOfSrams                 |-> 16,
     numberOfOfm                   |-> 16,
     totalAccumulatorsPerEngine    |-> 512,
     activationCompressionVersion  |-> version,
     totalSramSize                 |-> sramSize]

EmptyAllocation == [stripeShape |-> <<0, 0, 0, 0>>, tileSize |-> 0, offset |-> 0]

EmptyTensorConfig ==
    [inputAllocation   |-> EmptyAllocation,
     outputAllocation  |-> EmptyAllocation,
     weightsAllocation |-> EmptyAllocation,
     blockWidth |-> 0, blockHeight |-> 0, strategy |-> "NONE"]

\* the caller's allocator: n chunks of 256 bytes already in use, one at
\* every 512 bytes from the start of the SRAM
InitialAllocator(sramSize, n) ==
    [capacity |-> sramSize,
     free |-> SelectSeq([k \in 1..(n + 1) |->
                            IF k <= n THEN <<512 * (k - 1) + 256, 512 * k>> ELSE <<512 * n, sramSize>>],
                        LAMBDA chunk : chunk[1] < chunk[2])]

\* the independent choices behind one call
Choices ==
    [mceOperation : {"CONVOLUTION", "FULLY_CONNECTED"},
     upsample     : BOOLEAN,
     pooling      : BOOLEAN,
     version      : {0, 1},
     sramSize     : {1024, 10240, 1048576},
     spatial      : {8 * k : k \in 1..MaxSpatialBricks},
     channels     : {2, 20} \cup {16 * k : k \in 1..MaxChannelBricks},
     outChannels  : {16, 64},
     kernel       : {1, 3},
     blocks       : {<<>>, << <<8, 8>> >>, << <<8, 8>>, <<16, 16>> >>},
     static       : BOOLEAN,
     depthMax     : {8, 2147483647},
     usedChunks   : 0..MaxUsedChunks]

ReferenceChoice ==
    [mceOperation |-> "CONVOLUTION", upsample |-> FALSE, pooling |-> FALSE, version |-> 0,
     sramSize |-> 1048576, spatial |-> 8, channels |-> 16 * MaxChannelBricks, outChannels |-> 64,
     kernel |-> 3, blocks |-> << <<8, 8>> >>, static |-> FALSE, depthMax |-> 2147483647,
     usedChunks |-> 0]

Deviations(c) == Cardinality({f \in DOMAIN c : c[f] # ReferenceChoice[f]})

\* the arguments of TryStrategyX that a choice stands for
Call(c) ==
    LET mce == IF c.upsample THEN [m_H |-> Twice, m_W |-> Twice, m_C |-> Unit] ELSE Identity
        ple == IF c.pooling  THEN [m_H |-> Half,  m_W |-> Half,  m_C |-> Unit] ELSE Identity
        outSpatial == FracTimes(ShapeMul(mce, ple).m_H, c.spatial)
    IN  [mceOperation         |-> c.mceOperation,
         upsampleType         |-> IF c.upsample THEN "NEAREST_NEIGHBOUR" ELSE "OFF",
         tensorConfig         |-> EmptyTensorConfig,
         sramAllocator        |-> InitialAllocator(c.sramSize, c.usedChunks),
         inputShape           |-> <<1, c.spatial, c.spatial, c.channels>>,
         outputShape          |-> <<1, outSpatial, outSpatial, c.outChannels>>,
         weightsFormat        |-> "HWIO",
         weightsShape         |-> <<c.kernel, c.kernel, c.channels, c.outChannels>>,
         pad                  |-> <<(c.kernel - 1) \div 2, (c.kernel - 1) \div 2>>,
         allowedBlockConfigs  |-> c.blocks,
         capabilities         |-> Capabilities(c.version, c.sramSize),
         mceShapeMultiplier   |-> mce,
         pleShapeMultiplier   |-> ple,
         inputStaticAndOffset |-> <<c.static, 0>>,
         depthMax             |-> c.depthMax]

\* the end-to-end scenario: a 3x3 convolution of (1,32,32,64) to (1,32,32,128)
\* with no padding, one 8x8 block config and ample SRAM
ScenarioCall ==
    [Call([ReferenceChoice EXCEPT !.spatial = 32, !.channels = 64, !.outChannels = 128,
                                  !.kernel = 3, !.blocks = << <<8, 8>> >>, !.sramSize = 1048576])
        EXCEPT !.pad = <<0, 0>>]

\* a depth-capped call on hardware with activation compression: a 3x3
\* convolution of (1,16,16,48) to (1,16,16,64) with depthMax 8
DepthCappedCall == Call([ReferenceChoice EXCEPT !.spatial = 16, !.depthMax = 8, !.version = 1])

Calls ==
    {Call(c) : c \in {d \in Choices : Deviations(d) <= MaxDeviations}}
        \cup {ScenarioCall, DepthCappedCall}

-----------------------------------------------------------------------------
(* The state machine                                                       *)

NoIt  == [m |-> 0, t |-> 0, i |-> 0]
NoTry == [called |-> FALSE]

Init ==
    /\ args \in Calls
    /\ pc = "idle"
    /\ tensorConfig = args.tensorConfig
    /\ sramAllocator = args.sramAllocator
    /\ it = NoIt
    /\ xyRet = FALSE /\ zxyRet = FALSE /\ ret = FALSE
    /\ calls = [XY |-> 0, ZXY |-> 0]
    /\ lastTry = NoTry

\* what one TryStripeShapes call was given and what it left behind
Recorded(search, q, r) ==
    [called |-> TRUE, search |-> search, q |-> q,
     allocBefore |-> sramAllocator, cfgBefore |-> tensorConfig,
     sizes |-> r.sizes, fit |-> r.fit,
     ok |-> r.ok, allocAfter |-> r.alloc, cfgAfter |-> r.cfg]

\* TryStrategyX is called and calls TryInputXYOutputXYZ
CallTryStrategyX ==
    /\ pc = "idle"
    /\ pc' = "xy_entry"
    /\ UNCHANGED <<args, tensorConfig, sramAllocator, it, xyRet, zxyRet, ret, calls, lastTry>>

\* TryInputXYOutputXYZ up to its first candidate: the early returns, the
\* sort and the candidate list
EnterXY ==
    /\ pc = "xy_entry"
    /\ IF ApplicableXY(args) /\ ParamsListSizeXY(args) # 0
       THEN pc' = "xy_loop" /\ it' = [m |-> 1, t |-> 1, i |-> 1] /\ xyRet' = xyRet
       ELSE pc' = "xy_returned" /\ it' = NoIt /\ xyRet' = FALSE
    /\ UNCHANGED <<args, tensorConfig, sramAllocator, zxyRet, ret, calls, lastTry>>

\* one TryConf call of TryInputXYOutputXYZ, and the loop step after it
TryNextXY ==
    /\ pc = "xy_loop"
    /\ \E params \in {ParamsXY(args, it.i)} :
       LET allowInputBuffering == BufferingPassesXY[it.t]
           q == Request(params, allowInputBuffering, FALSE, "NO_RELOADING")
       IN  \E c \in {TryConfXY(args, params, allowInputBuffering, sramAllocator, tensorConfig)} :
           /\ tensorConfig' = c.cfg
           /\ sramAllocator' = c.alloc
           /\ calls' = [calls EXCEPT !.XY = @ + 1]
           /\ lastTry' = Recorded("XY", q, c.resolver)
           /\ IF c.ok
              THEN pc' = "xy_returned" /\ xyRet' = TRUE /\ it' = it
              ELSE IF it.i < ParamsListSizeXY(args)
              THEN pc' = pc /\ xyRet' = xyRet /\ it' = [it EXCEPT !.i = @ + 1]
              ELSE IF it.t < Len(BufferingPassesXY)
              THEN pc' = pc /\ xyRet' = xyRet /\ it' = [it EXCEPT !.t = @ + 1, !.i = 1]
              ELSE pc' = "xy_returned" /\ xyRet' = FALSE /\ it' = NoIt
    /\ UNCHANGED <<args, zxyRet, ret>>

\* mutant: TryInputZXYOutputXYZ is called whatever TryInputXYOutputXYZ returned
AfterXY_ThenAlwaysZXY ==
    /\ pc = "xy_returned"
    /\ pc' = "zxy_entry"
    /\ UNCHANGED <<args, tensorConfig, sramAllocator, it, xyRet, zxyRet, ret, calls, lastTry>>

\* TryStrategyX after TryInputXYOutputXYZ returned
AfterXY ==
    /\ pc = "xy_returned"
    /\ IF xyRet = TRUE
       THEN pc' = "done" /\ ret' = TRUE
       ELSE pc' = "zxy_entry" /\ ret' = ret
    /\ UNCHANGED <<args, tensorConfig, sramAllocator, it, xyRet, zxyRet, calls, lastTry>>

\* TryInputZXYOutputXYZ up to its first candidate
EnterZXY ==
    /\ pc = "zxy_entry"
    /\ IF ApplicableZXY(args) /\ ParamsListSizeZXY(args) # 0
       THEN pc' = "zxy_loop" /\ it' = [m |-> 1, t |-> 1, i |-> 1] /\ zxyRet' = zxyRet
       ELSE pc' = "zxy_returned" /\ it' = NoIt /\ zxyRet' = FALSE
    /\ UNCHANGED <<args, tensorConfig, sramAllocator, xyRet, ret, calls, lastTry>>

\* one TryConf call of TryInputZXYOutputXYZ, and the loop step after it
TryNextZXY ==
    /\ pc = "zxy_loop"
    /\ \E params \in {ParamsZXY(args, it.i)} :
       LET tier   == BufferingTiers[it.t]
           mode   == WeightsReloadingModes[it.m]
           q == Request(params, tier[1], tier[2], mode)
       IN  \E c \in {TryConfZXY(args, params, tier[1], tier[2], mode, sramAllocator, tensorConfig)} :
           /\ tensorConfig' = c.cfg
           /\ sramAllocator' = c.alloc
           /\ calls' = [calls EXCEPT !.ZXY = @ + 1]
           /\ lastTry' = Recorded("ZXY", q, c.resolver)
           /\ IF c.ok
              THEN pc' = "zxy_returned" /\ zxyRet' = TRUE /\ it' = it
              ELSE IF it.i < ParamsListSizeZXY(args)
              THEN pc' = pc /\ zxyRet' = zxyRet /\ it' = [it EXCEPT !.i = @ + 1]
              ELSE IF it.t < Len(BufferingTiers)
              THEN pc' = pc /\ zxyRet' = zxyRet /\ it' = [it EXCEPT !.t = @ + 1, !.i = 1]
              ELSE IF it.m < Len(WeightsReloadingModes)
              THEN pc' = pc /\ zxyRet' = zxyRet /\ it' = [m |-> it.m + 1, t |-> 1, i |-> 1]
              ELSE pc' = "zxy_returned" /\ zxyRet' = FALSE /\ it' = NoIt
    /\ UNCHANGED <<args, xyRet, ret>>

\* TryStrategyX after TryInputZXYOutputXYZ returned
AfterZXY ==
    /\ pc = "zxy_returned"
    /\ pc' = "done"
    /\ ret' = zxyRet
    /\ UNCHANGED <<args, tensorConfig, sramAllocator, it, xyRet, zxyRet, calls, lastTry>>

Next == CallTryStrategyX \/ EnterXY \/ TryNextXY \/ AfterXY \/ EnterZXY \/ TryNextZXY \/ AfterZXY

Spec == Init /\ [][Next]_vars

\* the calls are synchronous: a call that can take a step takes it (every
\* step moves pc or counts a resolver call)
FairSpec == Spec /\ WF_<<pc, calls>>(Next)

-----------------------------------------------------------------------------
(* IsBlockConfigCompatible called on its own: args holds the four          *)
(* arguments of the call and ret what it returned                          *)

MaxBlockBricks == 4

BlockQueries ==
    [blockConfig   : {<<8 * w, 8 * h>> : w, h \in 1..MaxBlockBricks},
     capabilities  : {[Capabilities(0, 1048576) EXCEPT !.totalAccumulatorsPerEngine = n] :
                          n \in {32, 128, 512}},
     mceOperation  : {"CONVOLUTION", "DEPTHWISE_CONVOLUTION", "FULLY_CONNECTED"},
     upsampleType  : {"OFF", "BILINEAR", "NEAREST_NEIGHBOUR", "TRANSPOSE"}]

InitBlockConfig ==
    /\ args \in BlockQueries
    /\ pc = "filter_idle"
    /\ tensorConfig = EmptyTensorConfig
    /\ sramAllocator = InitialAllocator(1048576, 0)
    /\ it = NoIt
    /\ xyRet = FALSE /\ zxyRet = FALSE /\ ret = FALSE
    /\ calls = [XY |-> 0, ZXY |-> 0]
    /\ lastTry = NoTry

CallIsBlockConfigCompatible ==
    /\ pc = "filter_idle"
    /\ pc' = "filter_returned"
    /\ ret' = IsBlockConfigCompatible(args.blockConfig, args.capabilities, args.mceOperation,
                                      args.upsampleType)
    /\ UNCHANGED <<args, tensorConfig, sramAllocator, it, xyRet, zxyRet, calls, lastTry>>

NextBlockConfig == CallIsBlockConfigCompatible

SpecBlockConfig == InitBlockConfig /\ [][NextBlockConfig]_vars

-----------------------------------------------------------------------------
(* Properties                                                              *)

Populated(allocation) ==
    /\ \A d \in 1..4 : allocation.stripeShape[d] > 0
    /\ allocation.tileSize > 0

FullyPopulated(cfg) ==
    /\ Populated(cfg.inputAllocation)
    /\ Populated(cfg.weightsAllocation)
    /\ Populated(cfg.outputAllocation)
    /\ cfg.blockWidth > 0 /\ cfg.blockHeight > 0
    /\ cfg.strategy = "STRATEGY_X"

AllOrNothing(returned) ==
    IF returned = TRUE THEN FullyPopulated(tensorConfig) ELSE tensorConfig = args.tensorConfig

\* C1: no partial success is surfaced: when TryStrategyX, TryInputXYOutputXYZ
\* or TryInputZXYOutputXYZ has returned, the TensorConfig is fully populated
\* and the call returned true, or the call returned false and the
\* TensorConfig is exactly what the caller passed in.
C1_NoPartialSuccess ==
    /\ pc = "xy_returned"  => AllOrNothing(xyRet)
    /\ pc = "zxy_returned" => AllOrNothing(zxyRet)
    /\ pc = "done"         => AllOrNothing(ret)

\* the caller's allocator after exactly one placement of the tiles recorded in cfg
OnePlacement(cfg) ==
    FitsInSram(args.sramAllocator, args.capabilities, cfg.inputAllocation.tileSize,
               cfg.weightsAllocation.tileSize, cfg.outputAllocation.tileSize,
               args.inputStaticAndOffset).alloc

\* C2: the shared allocator is written only for the accepted candidate: when
\* TryStrategyX has returned false the allocator is the caller's, and when it
\* has returned true the allocator is the caller's plus one placement of the
\* accepted input, weight and output tiles.
C2_AllocatorOnlyOnAccept ==
    pc = "done" =>
        IF ret = TRUE
        THEN sramAllocator = OnePlacement(tensorConfig)
        ELSE sramAllocator = args.sramAllocator

\* a candidate was rejected after its resolver call had succeeded
RejectedAfterCommit ==
    /\ lastTry.called /\ lastTry.search = "ZXY" /\ lastTry.ok
    /\ ~IsPartialDepth(lastTry.cfgAfter, args.inputShape)

\* C3: TryStripeShapes is atomic in its two out-parameters: when it returns
\* false (either alignment check, or FitsInSram failing on the private copy)
\* the caller's allocator and outTensorConfig are unchanged; when it returns
\* true the three stripe shapes, the three tile sizes and the three offsets
\* of the allocation result are written and the caller's allocator is the
\* private copy after the allocation.
C3_ResolverAtomic ==
    lastTry.called =>
        /\ lastTry.ok <=> (/\ InputDmaAble(args, lastTry.sizes.inputStripe)
                           /\ OutputDmaAble(args, lastTry.sizes.outputStripe)
                           /\ lastTry.fit.m_Success)
        /\ ~lastTry.ok => /\ lastTry.allocAfter = lastTry.allocBefore
                          /\ lastTry.cfgAfter = lastTry.cfgBefore
        /\ lastTry.ok =>
              /\ lastTry.allocAfter = lastTry.fit.alloc
              /\ lastTry.cfgAfter =
                    [lastTry.cfgBefore EXCEPT
                        !.inputAllocation   = [stripeShape |-> lastTry.sizes.inputStripe,
                                               tileSize    |-> lastTry.sizes.inputTile,
                                               offset      |-> lastTry.fit.m_InputOffset],
                        !.weightsAllocation = [stripeShape |-> lastTry.sizes.weightStripe,
                                               tileSize    |-> lastTry.sizes.weightTile,
                                               offset      |-> lastTry.fit.m_WeightOffset],
                        !.outputAllocation  = [stripeShape |-> lastTry.sizes.outputStripe,
                                               tileSize    |-> lastTry.sizes.outputTile,
                                               offset      |-> lastTry.fit.m_OutputOffset]]

\* a call failed in FitsInSram after the private copy had placed a tile
C3_Witness ==
    /\ lastTry.called /\ ~lastTry.ok
    /\ lastTry.fit # NoFit
    /\ lastTry.fit.alloc # lastTry.allocBefore

\* C4: every configuration TryStrategyX accepts fits the SRAM budget: the
\* recorded input, weight and output tiles together never exceed the
\* hardware SRAM size, and each lies inside it at its recorded offset.
C4_FitsSramBudget ==
    (pc = "done" /\ ret = TRUE) =>
        LET i == tensorConfig.inputAllocation
            w == tensorConfig.weightsAllocation
            o == tensorConfig.outputAllocation
        IN  /\ i.tileSize + w.tileSize + o.tileSize <= args.capabilities.totalSramSize
            /\ \A t \in {i, w, o} : t.offset + t.tileSize <= args.capabilities.totalSramSize

\* a configuration was accepted into an allocator that was already in use
C4_Witness ==
    /\ pc = "done" /\ ret = TRUE
    /\ Len(args.sramAllocator.free) > 1

FullOutputBytes ==
    TotalSizeBytes(<<1, RoundUpToNearestMultiple(GetHeight(args.outputShape), brickGroupHeight(args)),
                        RoundUpToNearestMultiple(GetWidth(args.outputShape), brickGroupWidth(args)),
                        RoundUpToNearestMultiple(GetChannels(args.outputShape),
                                                 args.capabilities.numberOfOfm)>>)

FullInputBytes ==
    TotalSizeBytes(<<1, RoundUpToNearestMultiple(GetHeight(args.inputShape), brickGroupHeight(args)),
                        RoundUpToNearestMultiple(GetWidth(args.inputShape), brickGroupWidth(args)),
                        RoundUpToNearestMultiple(GetChannels(args.inputShape),
                                                 args.capabilities.numberOfSrams)>>)

\* C5 (as claimed): every tile size a successful TryStripeShapes writes is at
\* most the byte size of the full tensor rounded up to its hardware
\* granularity, the output tile and the input tile alike.
C5_TilesWithinFullTensor ==
    (lastTry.called /\ lastTry.ok) =>
        /\ lastTry.cfgAfter.outputAllocation.tileSize <= FullOutputBytes
        /\ lastTry.cfgAfter.inputAllocation.tileSize <= FullInputBytes

\* C5 (amended): the output tile a successful TryStripeShapes writes is at
\* most the full output tensor rounded up to brick-group height and width
\* and OFM-lane channels; the input tile is at most three input stripes (one
\* stripe and two boundary slots) for each stripe along the width, times the
\* larger of 2 and the number of input stripes.
C5_OutputTileWithinFullTensor ==
    (lastTry.called /\ lastTry.ok) =>
        LET stripe == lastTry.cfgAfter.inputAllocation.stripeShape
            x == DivRoundUp(GetWidth(args.inputShape), GetWidth(stripe))
            y == DivRoundUp(GetHeight(args.inputShape), GetHeight(stripe))
            z == DivRoundUp(GetChannels(args.inputShape), GetChannels(stripe))
        IN  /\ lastTry.cfgAfter.outputAllocation.tileSize <= FullOutputBytes
            /\ lastTry.cfgAfter.inputAllocation.tileSize
                  <= 3 * TotalSizeBytes(stripe) * x * (IF x * y * z > 2 THEN x * y * z ELSE 2)

\* a successful call whose two output stripes would not fit the rounded
\* output tensor, so that the clamp decides the output tile
C5_Witness ==
    /\ lastTry.called /\ lastTry.ok
    /\ 2 * TotalSizeBytes(lastTry.cfgAfter.outputAllocation.stripeShape) > FullOutputBytes
    /\ lastTry.cfgAfter.inputAllocation.tileSize > FullInputBytes

\* C6: in every configuration TryStripeShapes accepts, the input stripe's
\* height and width are multiples of the brick-group height and width, and
\* so are the output stripe's, taken after the activation-compression
\* widening.
C6_StripesBrickGroupAligned ==
    (lastTry.called /\ lastTry.ok) =>
        \A stripe \in {lastTry.cfgAfter.inputAllocation.stripeShape,
                       lastTry.cfgAfter.outputAllocation.stripeShape} :
            /\ GetHeight(stripe) % brickGroupHeight(args) = 0
            /\ GetWidth(stripe) % brickGroupWidth(args) = 0

\* a call was accepted whose output stripe the activation compression widened
C6_Witness ==
    /\ lastTry.called /\ lastTry.ok
    /\ lastTry.q.activationCompression
    /\ GetChannels(lastTry.cfgAfter.outputAllocation.stripeShape)
          > CappedStripeChannels(args, lastTry.q)

\* C7: in every configuration TryStripeShapes accepts, the output stripe's
\* channel count (after the depthMax cap and the activation-compression
\* widening) is a multiple of the number of SRAMs, and the input stripe's
\* channel count is a multiple of the number of SRAMs times the stride size.
C7_ChannelsLaneAligned ==
    (lastTry.called /\ lastTry.ok) =>
        /\ GetChannels(lastTry.cfgAfter.outputAllocation.stripeShape)
              % args.capabilities.numberOfSrams = 0
        /\ GetChannels(lastTry.cfgAfter.inputAllocation.stripeShape)
              % (args.capabilities.numberOfSrams * StrideSize(args)) = 0

\* C8: TryInputZXYOutputXYZ returns true only with an input stripe of fewer
\* channels than the input, and returns false when the channel-split range
\* is empty (at most 2 input channels) or no block config is compatible.
C8_OnlyPartialDepth ==
    pc = "zxy_returned" =>
        /\ zxyRet = TRUE =>
              GetChannels(tensorConfig.inputAllocation.stripeShape) < GetChannels(args.inputShape)
        /\ (GetChannels(args.inputShape) <= 2
            \/ \A k \in 1..Len(args.allowedBlockConfigs) : ~IsCompatible(args, args.allowedBlockConfigs[k]))
              => zxyRet = FALSE

\* the channel-split search accepted a candidate
C8_Witness == pc = "zxy_returned" /\ zxyRet = TRUE /\ calls.ZXY > 0

\* C9: for an operator other than FULLY_CONNECTED, or an input that is static
\* at a caller-supplied offset, TryInputXYOutputXYZ returns false without
\* calling TryStripeShapes and leaves the allocator and the TensorConfig
\* unchanged.
C9_WholeChannelOnlyFullyConnected ==
    (pc = "xy_returned" /\ (~IsFullyConnected(args.mceOperation) \/ args.inputStaticAndOffset[1])) =>
        /\ xyRet = FALSE
        /\ calls.XY = 0
        /\ sramAllocator = args.sramAllocator
        /\ tensorConfig = args.tensorConfig

\* the whole-channel search returned for a convolution that has compatible
\* block configs and a non-static input
C9_Witness ==
    /\ pc = "xy_returned"
    /\ ~IsFullyConnected(args.mceOperation)
    /\ ~args.inputStaticAndOffset[1]
    /\ ParamsListSizeXY(args) > 0

\* candidate i of paramsList, tried alone from the caller's allocator with the
\* given buffering tier and weights-reloading mode, succeeds: the resolver
\* succeeds with a partial-depth input stripe
WouldSucceed(i, tier, mode) ==
    TryConfZXY(args, ParamsZXY(args, i), tier[1], tier[2], mode,
               args.sramAllocator, args.tensorConfig).ok

Buffered   == <<TRUE, TRUE>>
Unbuffered == <<FALSE, FALSE>>
ModeIndexes == 1..Len(WeightsReloadingModes)

\* the buffering tier of the candidate TryInputZXYOutputXYZ returned with
AcceptedTier == BufferingTiers[it.t]

\* C10 (as claimed): whenever a candidate (one block config, one channel
\* split) would succeed with input buffering plus reload avoidance under some
\* weights-reloading mode and would succeed with no input buffering under
\* some weights-reloading mode, TryInputZXYOutputXYZ returns a buffered plus
\* avoid-reload candidate, never an unbuffered one.
C10_BufferedBeforeUnbuffered ==
    (pc = "zxy_returned" /\ ApplicableZXY(args)) =>
        \A i \in 1..ParamsListSizeZXY(args) :
            ((\E m \in ModeIndexes : WouldSucceed(i, Buffered, WeightsReloadingModes[m]))
             /\ (\E m \in ModeIndexes : WouldSucceed(i, Unbuffered, WeightsReloadingModes[m])))
                => (zxyRet = TRUE /\ AcceptedTier = Buffered)

\* C10 (amended): the weights-reloading mode ranks above the buffering tier.
\* Whenever a candidate would succeed with input buffering plus reload
\* avoidance under weights-reloading mode m, TryInputZXYOutputXYZ returns
\* true, and with a candidate of an earlier mode than m or with a buffered
\* plus avoid-reload candidate of mode m; it returns an unbuffered candidate
\* only under a mode that comes before every mode in which a buffered plus
\* avoid-reload candidate fits.
C10_BufferedFirstWithinMode ==
    (pc = "zxy_returned" /\ ApplicableZXY(args)) =>
        \A i \in 1..ParamsListSizeZXY(args) : \A m \in ModeIndexes :
            WouldSucceed(i, Buffered, WeightsReloadingModes[m])
                => /\ zxyRet = TRUE
                   /\ it.m < m \/ (it.m = m /\ AcceptedTier = Buffered)

\* the search returned a buffered plus avoid-reload candidate under a mode in
\* which some candidate fits buffered and fits unbuffered, after an earlier
\* mode in which no candidate was accepted
C10_Witness ==
    /\ pc = "zxy_returned" /\ zxyRet = TRUE
    /\ AcceptedTier = Buffered
    /\ it.m > 1
    /\ \E i \in 1..ParamsListSizeZXY(args) :
          /\ WouldSucceed(i, Buffered, WeightsReloadingModes[it.m])
          /\ WouldSucceed(i, Unbuffered, WeightsReloadingModes[it.m])

\* C11: IsBlockConfigCompatible rejects a block of more elements than the
\* accumulators of one engine whatever the operator and the upsampling mode,
\* rejects every block but 8x8 for a fully-connected operator, rejects every
\* block but 16x16 when upsampling is on, and accepts every other block; a
\* fully-connected operator with upsampling has no compatible block.
C11_BlockConfigFilter ==
    pc = "filter_returned" =>
        LET w == args.blockConfig[1]
            h == args.blockConfig[2]
            tooLarge   == w * h > args.capabilities.totalAccumulatorsPerEngine
            notFcBlock == args.mceOperation = "FULLY_CONNECTED" /\ <<w, h>> # <<8, 8>>
            notUpBlock == args.upsampleType # "OFF" /\ <<w, h>> # <<16, 16>>
        IN  /\ tooLarge => ret = FALSE
            /\ notFcBlock => ret = FALSE
            /\ notUpBlock => ret = FALSE
            /\ (~tooLarge /\ ~notFcBlock /\ ~notUpBlock) => ret = TRUE
            /\ (args.mceOperation = "FULLY_CONNECTED" /\ args.upsampleType # "OFF") => ret = FALSE

\* a 16x16 block that exceeds the accumulators of one engine was rejected
\* for an upsampled convolution
C11_Witness ==
    /\ pc = "filter_returned"
    /\ args.blockConfig = <<16, 16>>
    /\ args.mceOperation = "CONVOLUTION" /\ args.upsampleType # "OFF"
    /\ args.capabilities.totalAccumulatorsPerEngine < 256
    /\ ret = FALSE

\* TryStrategyX has returned true for the end-to-end scenario, through the
\* channel-split search, the whole-channel search having returned false
\* without a resolver call, and with an output stripe of a multiple of the
\* number of SRAMs in channels
ScenarioSucceededThroughZXY ==
    /\ ret = TRUE
    /\ xyRet = FALSE /\ calls.XY = 0
    /\ zxyRet = TRUE
    /\ tensorConfig.strategy = "STRATEGY_X"
    /\ GetChannels(tensorConfig.outputAllocation.stripeShape) % args.capabilities.numberOfSrams = 0

\* C12 (as claimed): for the end-to-end scenario TryStrategyX succeeds
\* through the channel-split search with an output stripe of a multiple of
\* the number of SRAMs in channels and an unsplit input stripe of 64
\* channels.
C12_ScenarioUnsplitInput ==
    (pc = "done" /\ args = ScenarioCall) =>
        /\ ScenarioSucceededThroughZXY
        /\ GetChannels(tensorConfig.inputAllocation.stripeShape) = 64

\* C12 (amended): for the end-to-end scenario TryStrategyX succeeds through
\* the channel-split search with an output stripe of a multiple of the
\* number of SRAMs in channels and an input stripe split in depth: 32 of the
\* 64 input channels, the first channel split tried.
C12_ScenarioSplitInput ==
    (pc = "done" /\ args = ScenarioCall) =>
        /\ ScenarioSucceededThroughZXY
        /\ GetChannels(tensorConfig.inputAllocation.stripeShape) = 32
        /\ calls.ZXY = 1

\* TryStrategyX has returned for the end-to-end scenario
C12_Witness == pc = "done" /\ args = ScenarioCall /\ ret = TRUE

\* C13: TryStrategyX tries TryInputXYOutputXYZ first and TryInputZXYOutputXYZ
\* second: the channel-split search is called only after the whole-channel
\* search has returned false, never once it has returned true, and
\* TryStrategyX returns true exactly when one of the two returned true.
C13_WholeChannelFirst ==
    /\ pc \in {"idle", "xy_entry", "xy_loop"} => calls.ZXY = 0
    /\ pc \in {"zxy_entry", "zxy_loop", "zxy_returned"} => xyRet = FALSE
    /\ pc \in {"xy_returned", "done"} => (xyRet = TRUE => calls.ZXY = 0)
    /\ pc = "done" => IF xyRet = TRUE THEN ret = TRUE ELSE ret = zxyRet

\* TryStrategyX returned true on the whole-channel search's success, the
\* channel-split search never called
C13_Witness ==
    /\ pc = "done" /\ ret = TRUE
    /\ xyRet = TRUE /\ calls.XY > 0
    /\ calls.ZXY = 0

\* the compatible block configs of the call
NumCompatibleBlockConfigs ==
    Cardinality({k \in 1..Len(args.allowedBlockConfigs) : IsCompatible(args, args.allowedBlockConfigs[k])})

\* the bound as claimed: block configs x (input channels - 1) x 3 x 3
ClaimedResolverCalls == NumCompatibleBlockConfigs * (GetChannels(args.inputShape) - 1) * 3 * 3

\* the bound with the activation-compression options counted: two for
\* compression version 1 and an operator that is not fully connected, and
\* the channel splits 2 .. input channels - 1
ResolverCallsBound ==
    (IF args.capabilities.activationCompressionVersion = 1 /\ args.mceOperation # "FULLY_CONNECTED"
     THEN 2 ELSE 1)
        * NumCompatibleBlockConfigs
        * (IF GetChannels(args.inputShape) > 2 THEN GetChannels(args.inputShape) - 2 ELSE 0) * 3 * 3

C15_DepthCapped ==
    (/\ lastTry.called /\ lastTry.ok
     /\ DivRoundUp(GetHeight(args.inputShape),
                   GetHeight(lastTry.cfgAfter.inputAllocation.stripeShape)) > 1)
        => GetChannels(lastTry.cfgAfter.outputAllocation.stripeShape) <= args.depthMax

\* C16: in TryInputXYOutputXYZ the input-buffering flag has no effect.  For
\* every TryStripeShapes call of the whole-channel search the resolved input
\* stripe is of full depth, the same call with the flag flipped derives the
\* same stripes and tiles and leaves the same return value, allocator and
\* TensorConfig behind, and no call of the second (unbuffered) pass is
\* accepted: whatever is accepted is accepted in the first pass.
C16_BufferingHasNoEffectXY ==
    (lastTry.called /\ lastTry.search = "XY") =>
        LET flipped == [lastTry.q EXCEPT !.allowInputBuffering = ~@]
            r == TryStripeShapes(args, flipped, lastTry.allocBefore, lastTry.cfgBefore)
        IN  /\ GetChannels(lastTry.sizes.inputStripe) >= GetChannels(args.inputShape)
            /\ r.sizes = lastTry.sizes
            /\ r.ok = lastTry.ok /\ r.alloc = lastTry.allocAfter /\ r.cfg = lastTry.cfgAfter
            /\ (lastTry.ok => lastTry.q.allowInputBuffering)

\* both passes of the whole-channel search ran over a candidate list and
\* every candidate failed in both
C16_Witness ==
    /\ pc = "xy_returned" /\ xyRet = FALSE
    /\ lastTry.called /\ lastTry.search = "XY"
    /\ ~lastTry.q.allowInputBuffering /\ ~lastTry.ok
    /\ calls.XY = 2 * ParamsListSizeXY(args)

====
